---- MODULE Spec2Model ----
(***************************************************************************)
(* A model of watch_scraper.py (class WatchScraper).                       *)
(*                                                                         *)
(* Python strings are sequences of one-character strings, so that case     *)
(* conversion, stripping, splitting and the regular expressions of the     *)
(* source are computed character by character.  A Python dict is a         *)
(* function whose DOMAIN is the set of keys present.  A Python value is a  *)
(* record [t, s, n]: None, a str (s) or an int (n).                        *)
(***************************************************************************)
EXTENDS Integers, Sequences, FiniteSets, TLC

VARIABLES
    fn,             \* unit harness: the function under evaluation
    arg,            \* unit harness: its input
    ret,            \* unit harness: its result
    mode,           \* main(): "page", "range" or "all" (args.page/pages/all)
    include_details,\* main(): not args.no_details
    pc,             \* position of the run in main()/scrape_*()
    page_num,       \* loop variable of scrape_page_range / scrape_all_pages
    end_page,       \* last page of the loop (end_page, or total_pages)
    gp_url,         \* get_page: url being fetched
    gp_attempt,     \* get_page: attempts made so far in this call
    gp_sleeps,      \* get_page: time.sleep() arguments of this call
    gp_ret,         \* get_page: where the call returns to
    soup,           \* the value get_page returned last
    product_elements,\* scrape_page: soup.find_all('li', ...)
    idx,            \* scrape_page: enumerate index i (0 before the loop)
    product_data,   \* scrape_page: record under construction
    products,       \* scrape_page: products
    all_products,   \* scrape_page_range / scrape_all_pages: all_products
    result,         \* what main() receives (products to be saved)
    delay,          \* self.delay, the configured wait in seconds
    trace           \* history: fetch attempts, sleeps and per-page results

vars == << fn, arg, ret, mode, include_details, pc, page_num, end_page,
           gp_url, gp_attempt, gp_sleeps, gp_ret, soup, product_elements,
           idx, product_data, products, all_products, result, delay, trace >>

(***************************************************************************)
(* Python values                                                           *)
(***************************************************************************)
NoneV == [t |-> "none", s |-> << >>, n |-> 0]

StrV(s) == [t |-> "str", s |-> s, n |-> 0]

IntV(n) == [t |-> "int", s |-> << >>, n |-> n]

\* Python truthiness of a value: None, '' and 0 are falsy
Truthy(v) ==
    CASE v.t = "none" -> FALSE
      [] v.t = "str"  -> v.s # << >>
      [] OTHER        -> v.n # 0

\* dict.get(key) with default None
DictGet(d, key) == IF key \in DOMAIN d THEN d[key] ELSE NoneV

\* dict.update(other): keys of other overwrite, the rest is kept
DictUpdate(d, other) ==
    [k \in (DOMAIN d) \cup (DOMAIN other) |->
        IF k \in DOMAIN other THEN other[k] ELSE d[k]]

(***************************************************************************)
(* Characters and strings                                                  *)
(***************************************************************************)
Lowers == <<"a","b","c","d","e","f","g","h","i","j","k","l","m","n","o","p","q","r","s","t","u","v","w","x","y","z","ö">>

Uppers == <<"A","B","C","D","E","F","G","H","I","J","K","L","M","N","O","P","Q","R","S","T","U","V","W","X","Y","Z","Ö">>

Digits == <<"0","1","2","3","4","5","6","7","8","9">>

IsDigit(c) == \E i \in 1..Len(Digits) : Digits[i] = c

DigitVal(c) == (CHOOSE i \in 1..Len(Digits) : Digits[i] = c) - 1

\* str.isspace for the characters of the model
IsSpace(c) == c \in {" ", "\t", "\n"}

\* str.upper() on one character
UpperChar(c) ==
    IF \E i \in 1..Len(Lowers) : Lowers[i] = c
    THEN Uppers[CHOOSE i \in 1..Len(Lowers) : Lowers[i] = c]
    ELSE c

\* str.lower() on one character
LowerChar(c) ==
    IF \E i \in 1..Len(Uppers) : Uppers[i] = c
    THEN Lowers[CHOOSE i \in 1..Len(Uppers) : Uppers[i] = c]
    ELSE c

\* str.upper()
Upper(s) == [i \in 1..Len(s) |-> UpperChar(s[i])]

\* str.lower()
Lower(s) == [i \in 1..Len(s) |-> LowerChar(s[i])]

\* s[a-1:b] in Python terms: characters a..b (1-based, inclusive)
Slice(s, a, b) == IF a > b THEN << >> ELSE SubSeq(s, a, b)

\* index of the first character at or after position p that is (not) a space;
\* Len(s)+1 when there is none
RECURSIVE SkipSpaces(_, _)
SkipSpaces(s, p) ==
    IF p <= Len(s) /\ IsSpace(s[p]) THEN SkipSpaces(s, p + 1) ELSE p

RECURSIVE SkipNonSpaces(_, _)
SkipNonSpaces(s, p) ==
    IF p <= Len(s) /\ ~IsSpace(s[p]) THEN SkipNonSpaces(s, p + 1) ELSE p

RECURSIVE LastNonSpace(_, _)
LastNonSpace(s, p) ==
    IF p >= 1 /\ IsSpace(s[p]) THEN LastNonSpace(s, p - 1) ELSE p

\* str.strip()
Strip(s) == Slice(s, SkipSpaces(s, 1), LastNonSpace(s, Len(s)))

\* str.split(): the whitespace-delimited tokens
RECURSIVE SplitFrom(_, _)
SplitFrom(s, p) ==
    LET a == SkipSpaces(s, p)
        b == SkipNonSpaces(s, a)
    IN  IF a > Len(s) THEN << >>
        ELSE << Slice(s, a, b - 1) >> \o SplitFrom(s, b)

Split(s) == SplitFrom(s, 1)

\* str.replace(c, '') for a one-character c
RECURSIVE RemoveChar(_, _)
RemoveChar(s, c) ==
    IF s = << >> THEN << >>
    ELSE (IF Head(s) = c THEN << >> ELSE << Head(s) >>) \o RemoveChar(Tail(s), c)

\* int(s) for a string of decimal digits
RECURSIVE ToInt(_)
ToInt(s) ==
    IF s = << >> THEN 0
    ELSE 10 * ToInt(SubSeq(s, 1, Len(s) - 1)) + DigitVal(s[Len(s)])

\* n copies of the character c
RECURSIVE Rep(_, _)
Rep(c, n) == IF n = 0 THEN << >> ELSE << c >> \o Rep(c, n - 1)

(***************************************************************************)
(* Regular expressions of the source.  A pattern is a sequence of items:   *)
(*   lit   a literal string                                                *)
(*   star  zero or more characters of a class, greedy                      *)
(*   cap4  (\d{4}), the capture group                                      *)
(*   capp  ([class]+), the capture group, greedy                           *)
(* In every pattern of the source the class of a star or capp item is      *)
(* disjoint from the first character of the item after it, so greedy       *)
(* matching never has to backtrack.                                        *)
(***************************************************************************)
Lit(s) == [kind |-> "lit", lit |-> s, cls |-> ""]

Star(cls) == [kind |-> "star", lit |-> << >>, cls |-> cls]

Cap4 == [kind |-> "cap4", lit |-> << >>, cls |-> "digit"]

CapPlus(cls) == [kind |-> "capp", lit |-> << >>, cls |-> cls]

InClass(c, cls) ==
    CASE cls = "space"      -> IsSpace(c)                 \* \s
      [] cls = "colonspace" -> c = ":" \/ IsSpace(c)      \* [:\s]
      [] cls = "digit"      -> IsDigit(c)                 \* \d
      [] cls = "digitcomma" -> IsDigit(c) \/ c = ","      \* [\d,]
      [] OTHER              -> FALSE

RECURSIVE SkipClass(_, _, _)
SkipClass(s, p, cls) ==
    IF p <= Len(s) /\ InClass(s[p], cls) THEN SkipClass(s, p + 1, cls) ELSE p

LitAt(s, p, lit, ic) ==
    /\ p + Len(lit) - 1 <= Len(s)
    /\ \A i \in 1..Len(lit) :
          IF ic THEN LowerChar(s[p + i - 1]) = LowerChar(lit[i])
                ELSE s[p + i - 1] = lit[i]

NoMatch == [ok |-> FALSE, start |-> 0, stop |-> 0, group1 |-> << >>]

\* match items k.. of pat at position p of s; m carries start and capture
RECURSIVE MatchItems(_, _, _, _, _, _)
MatchItems(pat, k, s, p, ic, m) ==
    IF k > Len(pat) THEN [m EXCEPT !.ok = TRUE, !.stop = p - 1]
    ELSE
      LET it == pat[k] IN
      CASE it.kind = "lit" ->
             IF LitAt(s, p, it.lit, ic)
             THEN MatchItems(pat, k + 1, s, p + Len(it.lit), ic, m)
             ELSE NoMatch
        [] it.kind = "star" ->
             MatchItems(pat, k + 1, s, SkipClass(s, p, it.cls), ic, m)
        [] it.kind = "cap4" ->
             IF p + 3 <= Len(s) /\ \A i \in p..(p + 3) : IsDigit(s[i])
             THEN MatchItems(pat, k + 1, s, p + 4, ic,
                             [m EXCEPT !.group1 = SubSeq(s, p, p + 3)])
             ELSE NoMatch
        [] OTHER ->
             LET q == SkipClass(s, p, it.cls) IN
             IF q > p
             THEN MatchItems(pat, k + 1, s, q, ic,
                             [m EXCEPT !.group1 = SubSeq(s, p, q - 1)])
             ELSE NoMatch

RECURSIVE SearchFrom(_, _, _, _)
SearchFrom(pat, s, p, ic) ==
    IF p > Len(s) + 1 THEN NoMatch
    ELSE LET m == MatchItems(pat, 1, s, p, ic,
                             [ok |-> FALSE, start |-> p, stop |-> 0,
                              group1 |-> << >>])
         IN  IF m.ok THEN m ELSE SearchFrom(pat, s, p + 1, ic)

\* re.search(pat, s): the leftmost match
ReSearch(pat, s, ic) == SearchFrom(pat, s, 1, ic)

\* re.search('^' + pat, s): a match at the start of s only
ReSearchAnchored(pat, s, ic) ==
    MatchItems(pat, 1, s, 1, ic,
               [ok |-> FALSE, start |-> 1, stop |-> 0, group1 |-> << >>])

\* match.group(0)
Group0(s, m) == Slice(s, m.start, m.stop)

(***************************************************************************)
(* extract_main_brand_name                                                 *)
(***************************************************************************)
brand_patterns ==
  << <<"A","u","d","e","m","a","r","s"," ","P","i","g","u","e","t">>,
     <<"P","a","t","e","k"," ","P","h","i","l","i","p","p","e">>,
     <<"V","a","c","h","e","r","o","n"," ","C","o","n","s","t","a","n","t","i","n">>,
     <<"A","."," ","L","a","n","g","e"," ","&"," ","S","ö","h","n","e">>,
     <<"F","r","a","n","c","k"," ","M","u","l","l","e","r">>,
     <<"B","e","l","l"," ","&"," ","R","o","s","s">>,
     <<"T","a","g"," ","H","e","u","e","r">>,
     <<"J","a","e","g","e","r","-","L","e","C","o","u","l","t","r","e">>,
     <<"O","m","e","g","a">>,
     <<"R","o","l","e","x">>,
     <<"T","u","d","o","r">>,
     <<"C","a","r","t","i","e","r">>,
     <<"H","u","b","l","o","t">>,
     <<"B","r","e","i","t","l","i","n","g">>,
     <<"P","a","n","e","r","a","i">>,
     <<"I","W","C">>,
     <<"Z","e","n","i","t","h">>,
     <<"M","o","n","t","b","l","a","n","c">>,
     <<"L","o","n","g","i","n","e","s">>,
     <<"T","i","s","s","o","t">>,
     <<"S","e","i","k","o">>,
     <<"C","a","s","i","o">>,
     <<"C","i","t","i","z","e","n">> >>

\* the result for a matched brand_name = match.group(0)
BrandFormat(brand_name) ==
    IF \E i \in 1..Len(brand_name) : brand_name[i] = " "
    THEN brand_name
    ELSE Upper(brand_name)

\* the for loop over brand_patterns from pattern k on, then the fallback
RECURSIVE BrandFrom(_, _)
BrandFrom(full_brand_text, k) ==
    IF k > Len(brand_patterns)
    THEN LET words == Split(full_brand_text)
             first_word == IF words # << >> THEN words[1] ELSE full_brand_text
         IN  Upper(first_word)
    ELSE LET match == ReSearchAnchored(<< Lit(brand_patterns[k]) >>,
                                       full_brand_text, TRUE)
         IN  IF match.ok
             THEN BrandFormat(Group0(full_brand_text, match))
             ELSE BrandFrom(full_brand_text, k + 1)

extract_main_brand_name(full_brand_text) ==
    IF full_brand_text = << >> THEN full_brand_text
    ELSE BrandFrom(full_brand_text, 1)

(***************************************************************************)
(* Documents.  An element found by soup.find / select_one is a record      *)
(* [present, attr, text]: attr is the one attribute the source reads from  *)
(* it (href of an anchor, content of a meta tag; None when the attribute   *)
(* is missing), text its text content.                                     *)
(***************************************************************************)
NoElem == [present |-> FALSE, attr |-> NoneV, text |-> << >>]

Elem(attr, text) == [present |-> TRUE, attr |-> attr, text |-> text]

\* elem.get(name, default)
ElemGet(e, default) == IF e.attr.t = "none" THEN default ELSE e.attr

\* elem.get_text(strip=True)
GetTextStrip(e) == Strip(e.text)

\* a dict with the single key k
Entry(k, v) == k :> v

(***************************************************************************)
(* extract_product_basic_info                                              *)
(***************************************************************************)
price_pattern == << Lit(<<"S","G","D">>), Star("space"), CapPlus("digitcomma") >>

\* lines 144-147
BasicUrl(product_element, d) ==
    IF product_element.a.present
    THEN DictUpdate(d, Entry("product_url",
                             ElemGet(product_element.a, StrV(<< >>))))
    ELSE d

\* lines 149-156
BasicBrand(product_element, d) ==
    IF product_element.h2.present
    THEN LET brand_model_text == GetTextStrip(product_element.h2) IN
         DictUpdate(d,
            Entry("brand", StrV(extract_main_brand_name(brand_model_text)))
            @@ Entry("_full_brand_model", StrV(brand_model_text)))
    ELSE d

\* lines 158-161
BasicReference(product_element, d) ==
    IF product_element.h3.present
    THEN DictUpdate(d, Entry("reference", StrV(GetTextStrip(product_element.h3))))
    ELSE d

\* lines 163-166
BasicCondition(product_element, d) ==
    IF product_element.cond.present
    THEN DictUpdate(d, Entry("condition", StrV(GetTextStrip(product_element.cond))))
    ELSE d

\* lines 168-178
BasicPrice(product_element, d) ==
    IF product_element.price.present
    THEN LET price_text == GetTextStrip(product_element.price)
             price_match == ReSearch(price_pattern, price_text, FALSE)
         IN  IF price_match.ok
             THEN DictUpdate(d, Entry("price_sgd",
                                StrV(RemoveChar(price_match.group1, ","))))
             ELSE DictUpdate(d, Entry("price_sgd", NoneV))
    ELSE d

\* lines 180-185
BasicPlaceholders(d) ==
    DictUpdate(d, [k \in {"description", "year", "price_usd", "price_idr",
                          "completeness"} |-> NoneV])

EmptyDict == [k \in {} |-> NoneV]

extract_product_basic_info(product_element) ==
    BasicPlaceholders(
      BasicPrice(product_element,
        BasicCondition(product_element,
          BasicReference(product_element,
            BasicBrand(product_element,
              BasicUrl(product_element, EmptyDict))))))

(***************************************************************************)
(* extract_product_detailed_info, applied to the fetched document.         *)
(* A document is a record                                                  *)
(*   ok          FALSE for the None that get_page returns on failure       *)
(*   meta_desc   soup.find('meta', attrs={'name': 'description'})          *)
(*   desc_elems  soup.select_one(selector), one per description selector   *)
(*   ld_json     soup.find_all('script', type='application/ld+json')       *)
(*   page_text   soup.get_text()                                           *)
(*   product_elements, lmp_button, result_count: the listing page's parts  *)
(* A script block is [has_string, json, releaseDate, description]: json is *)
(* "invalid" (json.loads raises), "other" (not a dict) or "dict"; the two  *)
(* fields hold str(data[key]), or None when the key is missing.            *)
(***************************************************************************)
MinYear == 1950

MaxYear == 2025

MinDescLen == 20

year4_pattern == << Cap4 >>

year_patterns ==
  << << Lit(<<"Y","e","a","r">>), Star("colonspace"), Cap4 >>,
     << Cap4, Star("space"), Lit(<<"m","o","d","e","l">>) >>,
     << Lit(<<"c","i","r","c","a">>), Star("space"), Cap4 >>,
     << Lit(<<"m","a","n","u","f","a","c","t","u","r","e","d">>), Star("space"), Lit(<<"i","n">>), Star("space"), Cap4 >>,
     << Lit(<<"p","r","o","d","u","c","t","i","o","n">>), Star("space"), Lit(<<"y","e","a","r">>), Star("colonspace"), Cap4 >> >>

\* YearOf without the upper end of the range
YearOf_M(pat, text, ic) ==
    LET year_match == ReSearch(pat, text, ic) IN
    IF year_match.ok
    THEN LET year_int == ToInt(year_match.group1) IN
         IF MinYear <= year_int THEN IntV(year_int) ELSE NoneV
    ELSE NoneV

\* a year candidate: the first match of pat in text as an int, when in range
YearOf(pat, text, ic) ==
    LET year_match == ReSearch(pat, text, ic) IN
    IF year_match.ok
    THEN LET year_int == ToInt(year_match.group1) IN
         IF MinYear <= year_int /\ year_int <= MaxYear
         THEN IntV(year_int) ELSE NoneV
    ELSE NoneV

\* lines 243-260 for one script block: the year it yields, or None
BlockYear(script) ==
    IF ~script.has_string \/ script.json # "dict" THEN NoneV
    ELSE LET fromRelease ==
                 IF script.releaseDate.t = "none" THEN NoneV
                 ELSE YearOf(year4_pattern, script.releaseDate.s, FALSE)
             fromDescription ==
                 IF script.description.t = "none" THEN NoneV
                 ELSE YearOf(year4_pattern, script.description.s, FALSE)
         IN  IF fromRelease.t # "none" THEN fromRelease ELSE fromDescription

\* lines 239-262: the loop over the script blocks, left at the first year found
RECURSIVE StructuredYear(_, _)
StructuredYear(structured_data, k) ==
    IF k > Len(structured_data) THEN NoneV
    ELSE LET y == BlockYear(structured_data[k]) IN
         IF y.t # "none" THEN y ELSE StructuredYear(structured_data, k + 1)

\* lines 275-281: the loop over year_patterns, left at the first year accepted
RECURSIVE PageTextYear(_, _)
PageTextYear(page_text, k) ==
    IF k > Len(year_patterns) THEN NoneV
    ELSE LET y == YearOf(year_patterns[k], page_text, TRUE) IN
         IF y.t # "none" THEN y ELSE PageTextYear(page_text, k + 1)

\* DetailYear letting a page-text year replace the structured-data year
DetailYear_M(doc) ==
    LET fromText == PageTextYear(doc.page_text, 1) IN
    IF ~Truthy(fromText) THEN StructuredYear(doc.ld_json, 1)
    ELSE fromText

\* lines 237-281
DetailYear(doc) ==
    LET fromStructured == StructuredYear(doc.ld_json, 1) IN
    IF ~Truthy(fromStructured) THEN PageTextYear(doc.page_text, 1)
    ELSE fromStructured

\* lines 229-235: the loop over description_selectors
RECURSIVE SelectorDescription(_, _)
SelectorDescription(desc_elems, k) ==
    IF k > Len(desc_elems) THEN NoneV
    ELSE LET desc_elem == desc_elems[k]
             desc_text == GetTextStrip(desc_elem)
         IN  IF desc_elem.present /\ Len(desc_text) > MinDescLen
             THEN StrV(desc_text)
             ELSE SelectorDescription(desc_elems, k + 1)

\* lines 212-235
DetailDescription(doc) ==
    LET content == ElemGet(doc.meta_desc, NoneV)
        fromMeta == IF doc.meta_desc.present /\ Truthy(content)
                    THEN StrV(Strip(content.s)) ELSE NoneV
    IN  IF ~Truthy(fromMeta) THEN
            LET fromSelectors == SelectorDescription(doc.desc_elems, 1) IN
            IF fromSelectors.t # "none" THEN fromSelectors ELSE fromMeta
        ELSE fromMeta

\* lines 202-205: the result before, or without, a document
DetailDefaults == [description |-> NoneV, year |-> NoneV]

\* lines 208-286: the result given what get_page returned
DetailFromSoup(doc) ==
    IF ~doc.ok THEN DetailDefaults
    ELSE [description |-> DetailDescription(doc), year |-> DetailYear(doc)]

(***************************************************************************)
(* get_total_pages, given what get_page(self.base_url) returned            *)
(***************************************************************************)
PageSize == 20

DefaultTotalPages == 27

FailedTotalPages == 1

lmp_pattern == << Lit(<<"/","p","a","g","e","/">>), CapPlus("digit"), Lit(<<"/">>) >>

count_pattern == << CapPlus("digit"), Star("space"), Lit(<<"P","r","e","-","o","w","n","e","d"," ","w","a","t","c","h","e","s">>) >>

\* TotalPagesFromSoup consulting the result count before the pagination link
TotalPagesFromSoup_M(doc) ==
    IF ~doc.ok THEN FailedTotalPages
    ELSE
      LET href == ElemGet(doc.lmp_button, StrV(<< >>))
          page_match == ReSearch(lmp_pattern, href.s, FALSE)
          count_match == ReSearch(count_pattern, doc.result_count.text, FALSE)
      IN  IF doc.result_count.present /\ count_match.ok
          THEN (ToInt(count_match.group1) + (PageSize - 1)) \div PageSize
          ELSE IF doc.lmp_button.present /\ page_match.ok
               THEN ToInt(page_match.group1)
               ELSE DefaultTotalPages

TotalPagesFromSoup(doc) ==
    IF ~doc.ok THEN FailedTotalPages
    ELSE
      LET href == ElemGet(doc.lmp_button, StrV(<< >>))
          page_match == ReSearch(lmp_pattern, href.s, FALSE)
          count_match == ReSearch(count_pattern, doc.result_count.text, FALSE)
      IN  IF doc.lmp_button.present /\ page_match.ok
          THEN ToInt(page_match.group1)
          ELSE IF doc.result_count.present /\ count_match.ok
               THEN (ToInt(count_match.group1) + (PageSize - 1)) \div PageSize
               ELSE DefaultTotalPages

(***************************************************************************)
(* get_page, scrape_page, scrape_page_range, scrape_all_pages and main as  *)
(* one sequential process.  The only exception the modelled calls raise    *)
(* is requests.RequestException inside get_page (FetchFails); the handlers *)
(* of lines 187, 283, 339 and 377 guard calls that do not raise on the     *)
(* documents modelled here, and json.loads failing (line 261) is the       *)
(* "invalid" script block.  pc is the position of the run:                 *)
(*   start      before main() has read its arguments                       *)
(*   get_page   inside get_page, before the next attempt                   *)
(*   total      get_total_pages, after get_page returned                   *)
(*   sp_soup    scrape_page, after get_page returned (line 305)            *)
(*   sp_loop    scrape_page, at the head of the loop of line 315           *)
(*   sp_detail  extract_product_detailed_info, after get_page returned     *)
(*   sp_return  scrape_page has returned products to its caller            *)
(*   done       the products are handed to main() / the call has returned  *)
(***************************************************************************)
retry_count == 3

BackoffStep == 2

\* a url: the listing page number (0: base_url itself) or a product href
base_url == [page |-> 0, href |-> << >>]

PageUrl(n) == IF n = 1 THEN base_url ELSE [page |-> n, href |-> << >>]

DetailUrl(href) == [page |-> 0, href |-> href]

Doc(pes, lmp, rc, meta, descs, ld, text) ==
    [ok |-> TRUE, product_elements |-> pes, lmp_button |-> lmp,
     result_count |-> rc, meta_desc |-> meta, desc_elems |-> descs,
     ld_json |-> ld, page_text |-> text]

\* the None of get_page
NoneSoup ==
    [ok |-> FALSE, product_elements |-> << >>, lmp_button |-> NoElem,
     result_count |-> NoElem, meta_desc |-> NoElem, desc_elems |-> << >>,
     ld_json |-> << >>, page_text |-> << >>]

Event(ev, n, recs) == [ev |-> ev, n |-> n, recs |-> recs, secs |-> 0]

\* time.sleep(secs), lines 322 and 404/430: n is the listing waited for, 0
\* for the wait after a page
Sleep(n, secs) == [Event("delay", n, << >>) EXCEPT !.secs = secs]

\* lines 329-333; datetime.now() is the symbolic instant "now"
Metadata ==
    [k \in {"scraped_from", "scraped_at", "product_type"} |->
        CASE k = "scraped_from" -> StrV(<<"w","a","t","c","h","e","x","c","h","a","n","g","e",".","s","g">>)
          [] k = "scraped_at"   -> StrV(<<"n","o","w">>)
          [] OTHER              -> StrV(<<"w","a","t","c","h","e","s">>)]

\* lines 204-209 and 286: the detail result for a url and the fetched document
extract_product_detailed_info(product_url, doc) ==
    IF ~Truthy(product_url) THEN DetailDefaults ELSE DetailFromSoup(doc)

\* MergeDetail replacing the record by the detail result
MergeDetail_M(pd, detailed_info) == detailed_info

\* line 326: product_data.update(detailed_info)
MergeDetail(pd, detailed_info) == DictUpdate(pd, detailed_info)

\* Extend putting the new page's records first
Extend_M(all, ps) == ps \o all

\* line 401 / 427: all_products.extend(products)
Extend(all, ps) == all \o ps

\* line 335: products.append(product_data)
AppendProduct(ps, pd) == Append(ps, pd)

\* line 398 / 424: the next value of the loop variable
NextPage(n) == n + 1

\* WaitTime with the attempt index used unshifted
WaitTime_M(attempt) == attempt * BackoffStep

\* line 70: wait_time after the failed attempt with index attempt (0-based)
WaitTime(attempt) == (attempt + 1) * BackoffStep

\* line 69: whether a failed attempt with index attempt is followed by another
RetryAfter(attempt) == attempt < retry_count - 1

\* line 320: whether the detail page of a record is fetched
\* WantsDetail asking for the detail page whether or not details are enabled
WantsDetail_M(det, pd) == Truthy(DictGet(pd, "product_url"))

\* line 320
WantsDetail(det, pd) == det /\ Truthy(DictGet(pd, "product_url"))

(***************************************************************************)
(* The inputs: what the site serves and what callers pass                  *)
(***************************************************************************)
\* line 30: the delay of a scraper constructed without one
DefaultDelay == 1

\* lines 446 and 452: the values of --delay met here; time.sleep takes them as they
\* are, so they are the non-negative ones
Delays == {1, 2}

MaxPage == 2

MaxListings == 2

MaxBlocks == 2

\* sequences over S of length at most n
RECURSIVE SeqsUpTo(_, _)
SeqsUpTo(S, n) ==
    IF n = 0 THEN { << >> }
    ELSE LET shorter == SeqsUpTo(S, n - 1) IN
         shorter \cup { Append(q, x) : q \in shorter, x \in S }

Fragment(a, h2, h3, cond, price) ==
    [a |-> a, h2 |-> h2, h3 |-> h3, cond |-> cond, price |-> price]

Text(t) == Elem(NoneV, t)

\* the listing of section 8 of the specification
FragOmega ==
    Fragment(Elem(StrV(<<"/","w","/","1">>), << >>),
             Text(<<"O","m","e","g","a"," ","S","p","e","e","d","m","a","s","t","e","r"," ","P","r","o","f","e","s","s","i","o","n","a","l">>),
             Text(<<"3","1","1",".","3","0",".","4","2",".","3","0",".","0","1",".","0","0","5">>),
             Text(<<"P","r","e","-","o","w","n","e","d">>),
             Text(<<"S","G","D"," ","8",",","8","0","0">>))

\* an anchor without href, an unknown maker, a price without the SGD marker
FragUnknown ==
    Fragment(Elem(NoneV, << >>), Text(<<" ","U","n","k","n","o","w","n"," ","M","a","k","e","r"," ","X","1"," ">>), NoElem, NoElem,
             Text(<<"1","2",",","5","0","0">>))

\* bare markup: none of the elements the extractor looks for
FragBare == Fragment(NoElem, NoElem, NoElem, NoElem, NoElem)

\* the listing fragments the run meets
RunFragments == { FragOmega, FragUnknown, FragBare }

\* the listing fragments of the direct calls
CallFragments ==
    { Fragment(a, h2, h3, cond, price) :
        a \in { NoElem, Elem(NoneV, << >>), Elem(StrV(<<"/","w","/","1">>), << >>) },
        h2 \in { NoElem, Text(<< >>), Text(<<"O","m","e","g","a"," ","S","p","e","e","d","m","a","s","t","e","r"," ","P","r","o","f","e","s","s","i","o","n","a","l">>),
                 Text(<<" ","U","n","k","n","o","w","n"," ","M","a","k","e","r"," ","X","1"," ">>),
                 Text(<<"A","U","D","E","M","A","R","S"," ","P","I","G","U","E","T"," ","R","o","y","a","l"," ","O","a","k">>) },
        h3 \in { NoElem, Text(<<"3","1","1",".","3","0",".","4","2",".","3","0",".","0","1",".","0","0","5">>) },
        cond \in { NoElem, Text(<<"P","r","e","-","o","w","n","e","d">>) },
        price \in { NoElem, Text(<<"S","G","D"," ","8",",","8","0","0">>), Text(<<"S","G","D"," ","1","2",",","5","0","0">>),
                    Text(<<"1","2",",","5","0","0">>), Text(<<"U","S","D"," ","9","0","0">>),
                    Text(<<"S","G","D"," ",",">>),
                    Text(<<"f","r","o","m"," ","S","G","D","1",",","0","0","0",",","0","0","0"," ","n","e","t","t">>) } }

Casings == { "asis", "upper", "lower" }

Recase(s, c) ==
    CASE c = "upper" -> Upper(s)
      [] c = "lower" -> Lower(s)
      [] OTHER       -> s

\* brand + model texts: every known brand in three casings, with and without
\* a model after it, and texts that start with no known brand
BrandTexts ==
    { Recase(brand_patterns[k], c) \o suffix :
        k \in 1..Len(brand_patterns), c \in Casings,
        suffix \in { << >>, <<" ","R","o","y","a","l"," ","O","a","k">>, <<"x">> } }
    \cup { << >>, <<" ">>, <<"U","n","k","n","o","w","n"," ","M","a","k","e","r"," ","X","1">>, <<" "," ","l","e","a","d"," ","x">>, <<"T","a","g">>,
           <<"A","u","d","e","m","a","r","s">>, <<"B","e","l","l","&","R","o","s","s"," ","B","R">> }

Block(json, rd, desc) ==
    [has_string |-> TRUE, json |-> json, releaseDate |-> rd, description |-> desc]

\* JSON-LD script blocks
Blocks ==
    { [has_string |-> FALSE, json |-> "invalid", releaseDate |-> NoneV,
       description |-> NoneV],
      Block("invalid", NoneV, NoneV),
      Block("other", NoneV, NoneV),
      Block("dict", NoneV, NoneV),
      Block("dict", StrV(<<"1","9","9","8","-","0","5","-","0","1">>), NoneV),
      Block("dict", StrV(<<"3","0","1","2">>), StrV(<<"R","e","f"," ","1","6","6","1","0"," ","f","r","o","m"," ","2","0","0","1">>)),
      Block("dict", StrV(<<"s","o","o","n">>), StrV(<<"A"," ","2","0","2","5"," ","p","i","e","c","e">>)),
      Block("dict", NoneV, StrV(<<"C","a","s","e"," ","1","9","4","9",","," ","d","i","a","l"," ","1","9","7","5">>)),
      Block("dict", StrV(<<"2","0","2","6","-","0","1","-","0","1">>), NoneV) }

PageTexts ==
    { << >>, <<"c","i","r","c","a"," ","1","9","9","8">>, <<"Y","e","a","r",":"," ","3","0","1","2"," ","c","i","r","c","a"," ","1","9","9","8">>, <<"C","I","R","C","A","1","9","4","9">>,
      <<"2","0","0","1"," ","m","o","d","e","l"," ","y","e","a","r"," ","1","9","7","5">>, <<"P","r","o","d","u","c","t","i","o","n"," ","Y","e","a","r",":"," ","1","9","5","0">>,
      <<"m","a","n","u","f","a","c","t","u","r","e","d"," ","i","n","\n"," ","2","0","2","5"," ">>, <<"p","r","i","c","e"," ","1","2","5","0","0"," ","m","o","d","e","l">>, <<"Y","e","a","r"," ","2","0","2","6","1">>, <<"i","n"," ","1","9","9","8">>,
      <<"Y","e","a","r",":"," ","3","0","1","2"," ","Y","e","a","r",":"," ","1","9","9","5">> }

MetaDescs ==
    { NoElem, Elem(NoneV, << >>), Elem(StrV(<<" "," ">>), << >>),
      Elem(StrV(<<" ","A"," ","f","i","n","e"," ","w","a","t","c","h"," ">>), << >>) }

DescElems ==
    { << >>,
      << NoElem, Text(Rep("x", MinDescLen)), Text(<<" ">> \o Rep("y", MinDescLen + 1)) >>,
      << Text(Rep("x", MinDescLen + 1)), Text(Rep("y", MinDescLen + 2)) >> }

DetailDoc(meta, descs, ld, text) ==
    Doc(<< >>, NoElem, NoElem, meta, descs, ld, text)

\* the product pages of the direct calls: every year source with one
\* description source, and every description source with one year source
CallDetailDocs ==
    { DetailDoc(NoElem, << >>, ld, text) :
        ld \in SeqsUpTo(Blocks, MaxBlocks), text \in PageTexts }
    \cup { DetailDoc(meta, descs, << >>, << >>) :
             meta \in MetaDescs, descs \in DescElems }

\* the product pages the run meets
RunDetailDocs ==
    { DetailDoc(Elem(StrV(<<" ","A"," ","f","i","n","e"," ","w","a","t","c","h"," ">>), << >>), << >>,
                << Block("dict", StrV(<<"1","9","9","8","-","0","5","-","0","1">>), NoneV) >>, <<"c","i","r","c","a"," ","2","0","0","1">>),
      DetailDoc(NoElem, << >>, << Block("invalid", NoneV, NoneV) >>,
                <<"c","i","r","c","a"," ","2","0","0","1">>),
      DetailDoc(NoElem, << >>, << Block("dict", StrV(<<"3","0","1","2">>), NoneV) >>,
                <<"Y","e","a","r",":"," ","1","9","4","9">>) }

\* the listing pages the run meets: at most n listings
RunPageDocs(n) ==
    { Doc(pes, NoElem, NoElem, NoElem, << >>, << >>, << >>) :
        pes \in SeqsUpTo(RunFragments, n) }

RootDoc(lmp, rc) == Doc(<< >>, lmp, rc, NoElem, << >>, << >>, << >>)

LmpButtons ==
    { NoElem, Elem(NoneV, << >>), Elem(StrV(<<"/","w","a","t","c","h","e","s","/","p","a","g","e","/","x","/">>), << >>),
      Elem(StrV(<<"/","w","a","t","c","h","e","s","/","p","a","g","e","/","0","/">>), << >>),
      Elem(StrV(<<"/","w","a","t","c","h","e","s","/","p","a","g","e","/","2","/">>), << >>),
      Elem(StrV(<<"h","t","t","p","s",":","/","/","w","a","t","c","h","e","x","c","h","a","n","g","e",".","s","g","/","w","a","t","c","h","e","s","/","p","a","g","e","/","2","7","/","?","x","=","/","p","a","g","e","/","3","/">>), << >>),
      Elem(StrV(<<"/","w","a","t","c","h","e","s","/","p","a","g","e","/","2">>), << >>) }

ResultCounts ==
    { NoElem, Text(<<"A","l","l"," ","w","a","t","c","h","e","s">>), Text(<<"0"," ","P","r","e","-","o","w","n","e","d"," ","w","a","t","c","h","e","s">>),
      Text(<<"1"," ","P","r","e","-","o","w","n","e","d"," ","w","a","t","c","h","e","s">>), Text(<<"2","0"," ","P","r","e","-","o","w","n","e","d"," ","w","a","t","c","h","e","s">>),
      Text(<<" ","2","1"," "," "," ","P","r","e","-","o","w","n","e","d"," ","w","a","t","c","h","e","s"," ">>), Text(<<"S","h","o","w","i","n","g"," ","5","3","1"," ","P","r","e","-","o","w","n","e","d"," ","w","a","t","c","h","e","s">>),
      Text(<<"4","0"," ","p","r","e","-","o","w","n","e","d"," ","w","a","t","c","h","e","s">>) }

\* the root listing documents of the direct calls of get_total_pages
CallRootDocs == { RootDoc(lmp, rc) : lmp \in LmpButtons, rc \in ResultCounts }

\* what TotalPagesFromSoup makes of them is at most MaxPage for these
RunRootDocs == { d \in CallRootDocs : TotalPagesFromSoup(d) <= MaxPage }

(***************************************************************************)
(* The state after construction                                            *)
(***************************************************************************)
NoArg == [text |-> << >>, frag |-> FragBare, doc |-> NoneSoup, url |-> NoneV]

NoRet == [text |-> << >>, dict |-> EmptyDict, n |-> 0]

Init ==
    /\ fn = "none"
    /\ arg = NoArg
    /\ ret = NoRet
    /\ mode = "none"
    /\ include_details = FALSE
    /\ pc = "start"
    /\ page_num = 0
    /\ end_page = 0
    /\ gp_url = base_url
    /\ gp_attempt = 0
    /\ gp_sleeps = << >>
    /\ gp_ret = "none"
    /\ soup = NoneSoup
    /\ product_elements = << >>
    /\ idx = 0
    /\ product_data = EmptyDict
    /\ products = << >>
    /\ all_products = << >>
    /\ result = << >>
    /\ delay = DefaultDelay
    /\ trace = << >>

unitVars == << fn, arg, ret >>

loopVars == << product_elements, idx, product_data, products >>

\* the call get_page(url) from the position that continues at retTo
CallGetPage(url, retTo) ==
    /\ pc' = "get_page"
    /\ gp_url' = url
    /\ gp_attempt' = 0
    /\ gp_sleeps' = << >>
    /\ gp_ret' = retTo

\* the call scrape_page(n, include_details) up to its call of get_page
CallScrapePage(n, log) ==
    /\ CallGetPage(PageUrl(n), "sp_soup")
    /\ trace' = Append(log, Event("fetch_page", n, << >>))

(***************************************************************************)
(* get_page, lines 61-75: one attempt per step                             *)
(***************************************************************************)
\* the documents the site may answer the pending request with
Served ==
    CASE gp_ret = "sp_soup"   -> RunPageDocs(MaxListings - Len(all_products))
      [] gp_ret = "sp_detail" -> RunDetailDocs
      [] OTHER                -> RunRootDocs

\* lines 63-66: the attempt succeeds and the parsed document is returned
FetchSucceeds ==
    /\ pc = "get_page"
    /\ gp_attempt < retry_count
    /\ \E doc \in Served : soup' = doc
    /\ gp_attempt' = gp_attempt + 1
    /\ pc' = gp_ret
    /\ UNCHANGED << unitVars, delay, mode, include_details, page_num,
                    end_page, gp_url, gp_sleeps, gp_ret, loopVars,
                    all_products, result, trace >>

\* lines 67-75: the attempt raises requests.RequestException
FetchFails ==
    /\ pc = "get_page"
    /\ gp_attempt < retry_count
    /\ gp_attempt' = gp_attempt + 1
    /\ IF RetryAfter(gp_attempt)
       THEN /\ gp_sleeps' = Append(gp_sleeps, WaitTime(gp_attempt))
            /\ UNCHANGED << pc, soup >>
       ELSE /\ soup' = NoneSoup
            /\ pc' = gp_ret
            /\ UNCHANGED gp_sleeps
    /\ UNCHANGED << unitVars, delay, mode, include_details, page_num,
                    end_page, gp_url, gp_ret, loopVars, all_products,
                    result, trace >>

(***************************************************************************)
(* main, lines 457-466                                                     *)
(***************************************************************************)
\* --page P
MainPage ==
    /\ pc = "start"
    /\ \E p \in 1..MaxPage, det \in BOOLEAN, d \in Delays :
          /\ delay' = d
          /\ mode' = "page"
          /\ include_details' = det
          /\ page_num' = p
          /\ end_page' = p
          /\ CallScrapePage(p, trace)
    /\ UNCHANGED << unitVars, soup, loopVars, all_products, result >>

\* --pages START END: scrape_page_range up to the first scrape_page
MainRange ==
    /\ pc = "start"
    /\ \E start_page \in 1..MaxPage, last \in 1..MaxPage, det \in BOOLEAN,
          d \in Delays :
          /\ delay' = d
          /\ mode' = "range"
          /\ include_details' = det
          /\ page_num' = start_page
          /\ end_page' = last
          /\ IF start_page <= last
             THEN /\ CallScrapePage(start_page, trace)
                  /\ UNCHANGED result
             ELSE /\ pc' = "done"
                  /\ result' = << >>
                  /\ UNCHANGED << gp_url, gp_attempt, gp_sleeps, gp_ret, trace >>
    /\ all_products' = << >>
    /\ UNCHANGED << unitVars, soup, loopVars >>

\* --all: scrape_all_pages up to get_total_pages' call of get_page
MainAll ==
    /\ pc = "start"
    /\ \E det \in BOOLEAN, d \in Delays :
          /\ include_details' = det
          /\ delay' = d
    /\ mode' = "all"
    /\ CallGetPage(base_url, "total")
    /\ trace' = Append(trace, Event("fetch_total", 0, << >>))
    /\ UNCHANGED << unitVars, page_num, end_page, soup, loopVars, all_products,
                    result >>

\* lines 353-381 and 393-400: get_total_pages returns, the loop starts
TotalPagesReturn ==
    /\ pc = "total"
    /\ LET total_pages == TotalPagesFromSoup(soup) IN
          /\ end_page' = total_pages
          /\ page_num' = 1
          /\ IF 1 <= total_pages
             THEN /\ CallScrapePage(1, trace)
                  /\ UNCHANGED result
             ELSE /\ pc' = "done"
                  /\ result' = << >>
                  /\ UNCHANGED << gp_url, gp_attempt, gp_sleeps, gp_ret, trace >>
    /\ all_products' = << >>
    /\ UNCHANGED << unitVars, delay, mode, include_details, soup, loopVars >>

(***************************************************************************)
(* scrape_page, lines 304-343                                              *)
(***************************************************************************)
\* ScrapePageSoup giving up the whole run when the listing page is None
ScrapePageSoup_M ==
    /\ pc = "sp_soup"
    /\ IF ~soup.ok
       THEN /\ pc' = "done"
            /\ product_elements' = << >>
       ELSE /\ pc' = "sp_loop"
            /\ product_elements' = soup.product_elements
    /\ idx' = 0
    /\ products' = << >>
    /\ product_data' = EmptyDict
    /\ UNCHANGED << unitVars, delay, mode, include_details, page_num,
                    end_page, gp_url, gp_attempt, gp_sleeps, gp_ret, soup,
                    all_products, result, trace >>

\* lines 305-313
ScrapePageSoup ==
    /\ pc = "sp_soup"
    /\ IF ~soup.ok
       THEN /\ pc' = "sp_return"
            /\ product_elements' = << >>
       ELSE /\ pc' = "sp_loop"
            /\ product_elements' = soup.product_elements
    /\ idx' = 0
    /\ products' = << >>
    /\ product_data' = EmptyDict
    /\ UNCHANGED << unitVars, delay, mode, include_details, page_num,
                    end_page, gp_url, gp_attempt, gp_sleeps, gp_ret, soup,
                    all_products, result, trace >>

\* lines 315-335 for a listing whose detail page is not fetched
ScrapeProduct ==
    /\ pc = "sp_loop"
    /\ idx < Len(product_elements)
    /\ LET pd == extract_product_basic_info(product_elements[idx + 1]) IN
          /\ ~WantsDetail(include_details, pd)
          /\ product_data' = DictUpdate(pd, Metadata)
          /\ products' = AppendProduct(products, product_data')
    /\ idx' = idx + 1
    /\ trace' = Append(trace, Event("basic", idx + 1, << >>))
    /\ UNCHANGED << unitVars, delay, mode, include_details, pc, page_num,
                    end_page, gp_url, gp_attempt, gp_sleeps, gp_ret, soup,
                    product_elements, all_products, result >>

\* lines 315-325 and 207: the listing's detail page is requested
ScrapeProductFetch ==
    /\ pc = "sp_loop"
    /\ idx < Len(product_elements)
    /\ LET pd == extract_product_basic_info(product_elements[idx + 1]) IN
          /\ WantsDetail(include_details, pd)
          /\ product_data' = pd
          /\ CallGetPage(DetailUrl(pd["product_url"].s), "sp_detail")
    /\ idx' = idx + 1
    /\ trace' = trace \o << Event("basic", idx + 1, << >>),
                            Sleep(idx + 1, delay),
                            Event("fetch_detail", idx + 1, << >>) >>
    /\ UNCHANGED << unitVars, delay, mode, include_details, page_num,
                    end_page, soup, product_elements, products,
                    all_products, result >>

\* lines 208-286 and 326-335: the detail result is merged, the record appended
ScrapeProductDetail ==
    /\ pc = "sp_detail"
    /\ LET detailed_info ==
               extract_product_detailed_info(product_data["product_url"], soup)
       IN  product_data' = DictUpdate(MergeDetail(product_data, detailed_info),
                                      Metadata)
    /\ products' = AppendProduct(products, product_data')
    /\ pc' = "sp_loop"
    /\ UNCHANGED << unitVars, delay, mode, include_details, page_num,
                    end_page, gp_url, gp_attempt, gp_sleeps, gp_ret, soup,
                    product_elements, idx, all_products, result, trace >>

\* line 343
ScrapePageEnd ==
    /\ pc = "sp_loop"
    /\ idx = Len(product_elements)
    /\ pc' = "sp_return"
    /\ UNCHANGED << unitVars, delay, mode, include_details, page_num,
                    end_page, gp_url, gp_attempt, gp_sleeps, gp_ret, soup,
                    loopVars, all_products, result, trace >>

\* line 466: main receives the page's products
PageReturn ==
    /\ pc = "sp_return"
    /\ mode = "page"
    /\ result' = products
    /\ pc' = "done"
    /\ trace' = Append(trace, Event("page_done", page_num, products))
    /\ UNCHANGED << unitVars, delay, mode, include_details, page_num,
                    end_page, gp_url, gp_attempt, gp_sleeps, gp_ret, soup,
                    loopVars, all_products >>

\* lines 400-406 / 426-432: extend, sleep, then the next page or the return
LoopReturn ==
    /\ pc = "sp_return"
    /\ mode \in {"range", "all"}
    /\ all_products' = Extend(all_products, products)
    /\ page_num' = NextPage(page_num)
    /\ LET log == trace \o << Event("page_done", page_num, products),
                              Sleep(0, delay) >>
       IN  IF page_num' <= end_page
           THEN /\ CallScrapePage(page_num', log)
                /\ UNCHANGED result
           ELSE /\ pc' = "done"
                /\ result' = all_products'
                /\ trace' = log
                /\ UNCHANGED << gp_url, gp_attempt, gp_sleeps, gp_ret >>
    /\ UNCHANGED << unitVars, delay, mode, include_details, end_page, soup,
                    loopVars >>

(***************************************************************************)
(* Direct calls of the extractors on a fresh scraper                       *)
(***************************************************************************)
runVars == << mode, include_details, page_num, end_page, gp_url, gp_attempt,
              gp_sleeps, gp_ret, soup, loopVars, all_products, result, delay,
              trace >>

CallBrand ==
    /\ pc = "start"
    /\ \E text \in BrandTexts :
          /\ arg' = [NoArg EXCEPT !.text = text]
          /\ ret' = [NoRet EXCEPT !.text = extract_main_brand_name(text)]
    /\ fn' = "extract_main_brand_name"
    /\ pc' = "done"
    /\ UNCHANGED runVars

CallBasic ==
    /\ pc = "start"
    /\ \E frag \in CallFragments :
          /\ arg' = [NoArg EXCEPT !.frag = frag]
          /\ ret' = [NoRet EXCEPT !.dict = extract_product_basic_info(frag)]
    /\ fn' = "extract_product_basic_info"
    /\ pc' = "done"
    /\ UNCHANGED runVars

\* doc is what get_page returns for the url: a document, or None
CallDetail ==
    /\ pc = "start"
    /\ \E url \in { StrV(<< >>), StrV(<<"/","w","/","1">>) },
          doc \in CallDetailDocs \cup { NoneSoup } :
          /\ arg' = [NoArg EXCEPT !.url = url, !.doc = doc]
          /\ ret' = [NoRet EXCEPT !.dict = extract_product_detailed_info(url, doc)]
    /\ fn' = "extract_product_detailed_info"
    /\ pc' = "done"
    /\ UNCHANGED runVars

\* doc is what get_page(self.base_url) returns: a document, or None
CallTotalPages ==
    /\ pc = "start"
    /\ \E doc \in CallRootDocs \cup { NoneSoup } :
          /\ arg' = [NoArg EXCEPT !.doc = doc]
          /\ ret' = [NoRet EXCEPT !.n = TotalPagesFromSoup(doc)]
    /\ fn' = "get_total_pages"
    /\ pc' = "done"
    /\ UNCHANGED runVars

Next ==
    \/ MainPage
    \/ MainRange
    \/ MainAll
    \/ TotalPagesReturn
    \/ FetchSucceeds
    \/ FetchFails
    \/ ScrapePageSoup
    \/ ScrapeProduct
    \/ ScrapeProductFetch
    \/ ScrapeProductDetail
    \/ ScrapePageEnd
    \/ PageReturn
    \/ LoopReturn
    \/ CallBrand
    \/ CallBasic
    \/ CallDetail
    \/ CallTotalPages

Spec == Init /\ [][Next]_vars

(***************************************************************************)
(* Properties                                                              *)
(***************************************************************************)
IsFetchPage(e) == e.ev = "fetch_page"

IsPageDone(e) == e.ev = "page_done"

Returned == pc \notin {"start", "get_page"} /\ gp_ret # "none"

\* the waits after the first k failed attempts: 2, 4, ...
Backoff(k) == [i \in 1..k |-> 2 * i]

\* the fields the listing extractor reads from the listing fragment
ListingKeys == {"product_url", "brand", "reference", "condition", "price_sgd"}

\* records r and q carry the same listing fields
SameListingFields(r, q) ==
    \A key \in ListingKeys :
        /\ (key \in DOMAIN r) <=> (key \in DOMAIN q)
        /\ key \in DOMAIN r => r[key] = q[key]

\* C1: get_page makes at most 3 attempts; an attempt that fails and is not the
\* third is followed by a wait of 2 * (its number) seconds and another attempt;
\* a successful attempt returns the document at once; the third failure
\* returns None without waiting.
C1_BoundedRetry ==
    [][ /\ gp_attempt' <= 3
        /\ pc = "get_page" =>
             /\ gp_attempt' = gp_attempt + 1
             /\ \/ /\ pc' = "get_page"              \* failed, will retry
                   /\ gp_attempt' < 3
                   /\ gp_sleeps' = Append(gp_sleeps, 2 * gp_attempt')
                \/ /\ pc' = gp_ret                  \* returned
                   /\ gp_sleeps' = gp_sleeps
                   /\ ~soup'.ok => gp_attempt' = 3
        /\ Returned' =>
             /\ gp_sleeps' = Backoff(IF soup'.ok THEN gp_attempt' - 1 ELSE 2)
             /\ gp_attempt' \in 1..3 ]_vars

\* all three attempts failed: two waits, 2s then 4s, and None returned
C1_Witness ==
    /\ Returned
    /\ ~soup.ok
    /\ gp_attempt = 3
    /\ gp_sleeps = << 2, 4 >>

RECURSIVE ConcatDone(_)
ConcatDone(tr) ==
    IF tr = << >> THEN << >>
    ELSE (IF IsPageDone(Head(tr)) THEN Head(tr).recs ELSE << >>)
         \o ConcatDone(Tail(tr))

StrictlyIncreasing(events) ==
    \A i, j \in 1..Len(events) : i < j => events[i].n < events[j].n

\* C2: listing pages are fetched in strictly increasing page number, the k-th
\* record of a page comes from the k-th listing of that page, and the
\* sequence returned is the concatenation of the pages' record sequences in
\* the order the pages were fetched.
C2_PageOrder ==
    /\ StrictlyIncreasing(SelectSeq(trace, IsFetchPage))
    /\ StrictlyIncreasing(SelectSeq(trace, IsPageDone))
    /\ pc \in {"sp_loop", "sp_return"} =>
          /\ Len(products) = idx
          /\ \A k \in 1..idx :
                SameListingFields(products[k],
                    extract_product_basic_info(product_elements[k]))
    /\ mode \in {"range", "all"} =>
          all_products = ConcatDone(trace)
    /\ pc = "done" /\ mode \in {"page", "range", "all"} =>
          result = ConcatDone(trace)

\* a range of two pages has returned records of both, in page order
C2_Witness ==
    /\ pc = "done"
    /\ mode = "range"
    /\ Len(result) = 2
    /\ result[1] # result[2]
    /\ LET done == SelectSeq(trace, IsPageDone) IN
          /\ Len(done) = 2
          /\ done[1].recs = << result[1] >>
          /\ done[2].recs = << result[2] >>

\* C3: the merge of the detail result leaves product_url, brand, reference,
\* condition and price_sgd of the record as the listing extractor set them.
C3_MergeFrame ==
    [][ pc = "sp_detail" =>
          /\ SameListingFields(product_data', product_data)
          /\ SameListingFields(product_data',
                extract_product_basic_info(product_elements[idx]))
          /\ products' = Append(products, product_data') ]_vars

\* a record with its detail year merged in and its listing fields in place
C3_Witness ==
    /\ pc = "sp_loop"
    /\ idx = 1
    /\ Len(products) = 1
    /\ products[1]["year"] = IntV(1998)
    /\ products[1]["description"].t = "str"
    /\ products[1]["brand"].t = "str"

YearOk(r) ==
    "year" \in DOMAIN r =>
        \/ r["year"] = NoneV
        \/ r["year"].t = "int" /\ 1950 <= r["year"].n /\ r["year"].n <= 2025

\* C4: the year of every record, and of every detail result, is None or an
\* int in [1950, 2025].
C4_YearRange ==
    /\ \A k \in 1..Len(products) : YearOk(products[k])
    /\ \A k \in 1..Len(all_products) : YearOk(all_products[k])
    /\ \A k \in 1..Len(result) : YearOk(result[k])
    /\ YearOk(product_data)
    /\ fn = "extract_product_detailed_info" =>
          "year" \in DOMAIN ret.dict /\ YearOk(ret.dict)

\* a product page whose 4-digit candidates are 3012, 1661 and 2026 yields no year
C4_Witness ==
    /\ fn = "extract_product_detailed_info"
    /\ Truthy(arg.url)
    /\ Len(arg.doc.ld_json) = 1
    /\ arg.doc.ld_json[1].releaseDate = StrV(<<"3","0","1","2">>)
    /\ arg.doc.ld_json[1].description.t = "str"
    /\ arg.doc.page_text = <<"Y","e","a","r"," ","2","0","2","6","1">>
    /\ ret.dict["year"] = NoneV

\* the brand patterns that match the start of text, ignoring case
MatchingBrands(text) ==
    { k \in 1..Len(brand_patterns) : LitAt(text, 1, brand_patterns[k], TRUE) }

HasSpace(s) == \E i \in 1..Len(s) : s[i] = " "

\* C5: every record of a listing fragment has a brand derived from the
\* fragment's text; when no known brand matches, it is the first
\* whitespace-delimited token of that text, upper-cased.
C5_BrandAlways ==
    /\ fn = "extract_product_basic_info" =>
          /\ "brand" \in DOMAIN ret.dict
          /\ ret.dict["brand"].t = "str"
          /\ LET text == Strip(arg.frag.h2.text) IN
             MatchingBrands(text) = {} /\ Split(text) # << >> =>
                 ret.dict["brand"].s = Upper(Split(text)[1])
    /\ \A k \in 1..Len(products) : "brand" \in DOMAIN products[k]

\* C6: a fetch that failed for good never ends the run: a listing page that
\* could not be fetched contributes no record and the next page of the range
\* is fetched; a detail page that could not be fetched leaves description and
\* year None, and the record is appended with its listing fields and metadata.
C6_FailureContinues ==
    [][ /\ pc = "sp_soup" /\ ~soup.ok =>
             pc' = "sp_return" /\ products' = << >>
        /\ pc = "sp_return" /\ mode \in {"range", "all"} =>
             /\ all_products' = all_products \o products
             /\ IF page_num < end_page
                THEN pc' = "get_page" /\ gp_url' = PageUrl(page_num + 1)
                                      /\ gp_ret' = "sp_soup"
                ELSE pc' = "done" /\ result' = all_products'
        /\ pc = "sp_return" /\ mode = "page" =>
             pc' = "done" /\ result' = products
        /\ pc = "sp_detail" /\ ~soup.ok =>
             /\ pc' = "sp_loop"
             /\ Len(products') = Len(products) + 1
             /\ LET r == products'[Len(products')] IN
                   /\ r["description"] = NoneV
                   /\ r["year"] = NoneV
                   /\ SameListingFields(r,
                         extract_product_basic_info(product_elements[idx]))
                   /\ {"scraped_from", "scraped_at", "product_type"}
                         \subseteq DOMAIN r ]_vars

\* page 1 of a range gave nothing, page 2 is being processed, and the record
\* of a listing whose detail page could not be fetched is in its products
C6_Witness ==
    /\ mode = "range"
    /\ page_num = 2
    /\ pc = "sp_loop"
    /\ ~soup.ok
    /\ gp_attempt = 3
    /\ Len(products) = 1
    /\ products[1]["brand"] = StrV(<<"O","M","E","G","A">>)
    /\ products[1]["year"] = NoneV
    /\ SelectSeq(trace, IsPageDone) = << Event("page_done", 1, << >>) >>

Min(S) == CHOOSE x \in S : \A y \in S : x <= y

\* a / b rounded up
CeilDiv(a, b) == CHOOSE q \in 0..a : b * q >= a /\ (q = 0 \/ b * (q - 1) < a)

\* where a "/page/<digits>/" starts in href
PageLinkStarts(href) ==
    { a \in 1..Len(href) :
        /\ LitAt(href, a, <<"/","p","a","g","e","/">>, FALSE)
        /\ \E b \in (a + 6)..(Len(href) - 1) :
              /\ \A i \in (a + 6)..b : IsDigit(href[i])
              /\ href[b + 1] = "/" }

\* the number of the leftmost "/page/<digits>/" of href
PageLinkNumber(href) ==
    LET a == Min(PageLinkStarts(href))
        b == CHOOSE e \in (a + 6)..(Len(href) - 1) :
                 /\ \A i \in (a + 6)..e : IsDigit(href[i])
                 /\ href[e + 1] = "/"
    IN  ToInt(SubSeq(href, a + 6, b))

\* the ends b of digit runs a..b of text followed by blanks and the label
CountEnds(text, a) ==
    { b \in a..Len(text) :
        /\ \A i \in a..b : IsDigit(text[i])
        /\ \E c \in (b + 1)..(Len(text) + 1) :
              /\ \A i \in (b + 1)..(c - 1) : IsSpace(text[i])
              /\ LitAt(text, c, <<"P","r","e","-","o","w","n","e","d"," ","w","a","t","c","h","e","s">>, FALSE) }

CountStarts(text) == { a \in 1..Len(text) : CountEnds(text, a) # {} }

\* the leftmost "<digits> Pre-owned watches" count of text
CountNumber(text) ==
    LET a == Min(CountStarts(text)) IN
    ToInt(SubSeq(text, a, Min(CountEnds(text, a))))

\* the page count the priority chain gives for a root document
ChainPages(doc) ==
    LET href == IF doc.lmp_button.present /\ doc.lmp_button.attr.t = "str"
                THEN doc.lmp_button.attr.s ELSE << >>
        text == IF doc.result_count.present THEN doc.result_count.text
                ELSE << >>
    IN  IF PageLinkStarts(href) # {} THEN PageLinkNumber(href)
        ELSE IF CountStarts(text) # {} THEN CeilDiv(CountNumber(text), 20)
        ELSE 27

\* C7 as stated: the page count is the pagination link's page number if
\* readable, otherwise the result count divided by 20 and rounded up,
\* otherwise, whenever neither yields a number, 27.
C7_PriorityChain ==
    fn = "get_total_pages" => ret.n = ChainPages(arg.doc)

\* C7 as amended: the chain decides when the root listing document was
\* fetched; when its fetch failed for good, the page count is 1.
C7_PriorityChainFetched ==
    fn = "get_total_pages" =>
        ret.n = IF arg.doc.ok THEN ChainPages(arg.doc) ELSE 1

\* link and count both present: the link decides; and neither: 27
C7_Witness ==
    /\ fn = "get_total_pages"
    /\ arg.doc.ok
    /\ arg.doc.lmp_button.attr = StrV(<<"/","w","a","t","c","h","e","s","/","p","a","g","e","/","2","/">>)
    /\ arg.doc.result_count.text = <<"S","h","o","w","i","n","g"," ","5","3","1"," ","P","r","e","-","o","w","n","e","d"," ","w","a","t","c","h","e","s">>
    /\ ret.n = 2

\* where "SGD", blanks and a run of digits and commas start in text
SgdStarts(text) ==
    { a \in 1..Len(text) :
        /\ LitAt(text, a, <<"S","G","D">>, FALSE)
        /\ LET c == SkipSpaces(text, a + 3) IN
           c <= Len(text) /\ (IsDigit(text[c]) \/ text[c] = ",") }

\* the digits of the leftmost SGD-tagged run of text
SgdDigits(text) ==
    LET a == Min(SgdStarts(text))
        c == SkipSpaces(text, a + 3)
        run == { b \in c..Len(text) :
                   \A i \in c..b : IsDigit(text[i]) \/ text[i] = "," }
        b == CHOOSE x \in run : \A y \in run : y <= x
    IN  SelectSeq(SubSeq(text, c, b), IsDigit)

\* C8: price_sgd is the digits of the SGD-tagged run of the fragment's price
\* text, and it is present and None whenever the fragment has no such run.
C8_PriceAlways ==
    fn = "extract_product_basic_info" =>
        /\ "price_sgd" \in DOMAIN ret.dict
        /\ LET text == IF arg.frag.price.present
                       THEN Strip(arg.frag.price.text) ELSE << >>
           IN  IF SgdStarts(text) = {}
               THEN ret.dict["price_sgd"] = NoneV
               ELSE ret.dict["price_sgd"] = StrV(SgdDigits(text))

\* C9: a text that starts with a known multi-word brand, in any casing, gives
\* that brand as the pattern list spells it; a text that starts with a known
\* single-word brand gives the brand upper-cased; the first matching pattern
\* decides.
C9_BrandCasing ==
    fn = "extract_main_brand_name" /\ MatchingBrands(arg.text) # {} =>
        LET brand == brand_patterns[Min(MatchingBrands(arg.text))] IN
        ret.text = IF HasSpace(brand) THEN brand ELSE Upper(brand)

InRange(y) == 1950 <= y /\ y <= 2025

\* the value of the leftmost run of four digits of s in range, else -1
First4InRange(v) ==
    LET s == v.s
        at == { i \in 1..(Len(s) - 3) : \A j \in i..(i + 3) : IsDigit(s[j]) }
    IN  IF v.t = "str" /\ at # {} /\ InRange(ToInt(SubSeq(s, Min(at), Min(at) + 3)))
        THEN ToInt(SubSeq(s, Min(at), Min(at) + 3))
        ELSE -1

\* the year a script block offers: releaseDate before description, else -1
BlockOffer(b) ==
    IF ~b.has_string \/ b.json # "dict" THEN -1
    ELSE IF First4InRange(b.releaseDate) # -1 THEN First4InRange(b.releaseDate)
    ELSE First4InRange(b.description)

\* the year the leftmost match of year pattern i offers, else -1
PatternOffer(i, text) ==
    LET m == ReSearch(year_patterns[i], text, TRUE) IN
    IF m.ok /\ InRange(ToInt(m.group1)) THEN ToInt(m.group1) ELSE -1

\* C10: the year is that of the first script block that offers one
\* (releaseDate before description), whatever the page text says; when no
\* block offers one, it is that of the first year pattern, in the listed
\* order, whose leftmost match in the page text lies in [1950, 2025]; page
\* text "circa 1998" with no structured-data year gives 1998.
C10_YearLayers ==
    fn = "extract_product_detailed_info" /\ Truthy(arg.url) /\ arg.doc.ok =>
        LET ld == arg.doc.ld_json
            text == arg.doc.page_text
            blocks == { k \in 1..Len(ld) : BlockOffer(ld[k]) # -1 }
            pats == { i \in 1..5 : PatternOffer(i, text) # -1 }
            year == ret.dict["year"]
        IN  /\ blocks # {} => year = IntV(BlockOffer(ld[Min(blocks)]))
            /\ blocks = {} /\ pats # {} =>
                  year = IntV(PatternOffer(Min(pats), text))
            /\ blocks = {} /\ pats = {} => year = NoneV
            /\ blocks = {} /\ text = <<"c","i","r","c","a"," ","1","9","9","8">> => year = IntV(1998)

\* page text "circa 1998" and no structured data: the year is 1998
C10_Witness ==
    /\ fn = "extract_product_detailed_info"
    /\ Truthy(arg.url)
    /\ arg.doc.ok
    /\ arg.doc.ld_json = << >>
    /\ arg.doc.page_text = <<"c","i","r","c","a"," ","1","9","9","8">>
    /\ ret.dict["year"] = IntV(1998)

(***************************************************************************)
(* Pacing of the run: scrape_page lines 315-326, the loops of lines        *)
(* 397-404 and 423-430                                                     *)
(***************************************************************************)
IsFetchDetail(e) == e.ev = "fetch_detail"

\* the request of a detail page is under way or has just been answered
DetailPending == gp_ret = "sp_detail" /\ pc \in {"get_page", "sp_detail"}

\* the urls of the listing pages; the page count is read from base_url,
\* which is the url of listing page 1
IsListingUrl(url) == url.href = << >>

\* every detail fetch of the history comes right after one wait of the
\* configured delay, itself right after the basic extraction of its listing
DetailFetchPaced(log, det, secs) ==
    \A i \in 1..Len(log) :
        IsFetchDetail(log[i]) =>
            /\ det
            /\ i >= 3
            /\ log[i - 1] = Sleep(log[i].n, secs)
            /\ log[i - 2] = Event("basic", log[i].n, << >>)

\* a wait for a listing is never taken without its detail fetch
ListingWaitsFetch(log) ==
    \A i \in 1..Len(log) :
        (log[i].ev = "delay" /\ log[i].n > 0) =>
            /\ i < Len(log)
            /\ log[i + 1] = Event("fetch_detail", log[i].n, << >>)

\* each finished page is followed by one wait of the configured delay, and
\* a later page is fetched only right after that wait
PagesPaced(log, secs) ==
    \A i \in 1..Len(log) :
        /\ IsPageDone(log[i]) =>
              /\ i < Len(log)
              /\ log[i + 1] = Sleep(0, secs)
              /\ (i + 1 < Len(log) => IsFetchPage(log[i + 2]))
        /\ (IsFetchPage(log[i]) /\ \E j \in 1..(i - 1) : IsFetchPage(log[j])) =>
              /\ log[i - 1] = Sleep(0, secs)
              /\ IsPageDone(log[i - 2])
              /\ log[i - 2].n < log[i].n

\* C11: a detail page is fetched for a listing only when details are
\* enabled and the listing's record has a non-empty product_url, and that
\* fetch comes after exactly one wait of the configured delay taken after
\* the listing's basic extraction; with details disabled no detail page is
\* fetched and every fetch is of a listing page; in range and all-pages mode
\* one wait of the configured delay follows each page before the next page
\* is fetched.
C11_Pacing ==
    /\ DetailFetchPaced(trace, include_details, delay)
    /\ ListingWaitsFetch(trace)
    /\ DetailPending =>
          /\ include_details
          /\ idx \in 1..Len(product_elements)
          /\ product_data = extract_product_basic_info(product_elements[idx])
          /\ Truthy(DictGet(product_data, "product_url"))
          /\ product_data["product_url"].s # << >>
          /\ gp_url = DetailUrl(product_data["product_url"].s)
          /\ trace[Len(trace)] = Event("fetch_detail", idx, << >>)
    /\ ~include_details =>
          /\ SelectSeq(trace, IsFetchDetail) = << >>
          /\ IsListingUrl(gp_url)
    /\ mode \in {"range", "all"} => PagesPaced(trace, delay)

\* a finished two-page run with details enabled and a delay other than the
\* default: one listing had a url and its detail page was fetched, another
\* had none and was appended without a wait
C11_Witness ==
    /\ pc = "done"
    /\ mode \in {"range", "all"}
    /\ include_details
    /\ delay # DefaultDelay
    /\ Len(SelectSeq(trace, IsFetchPage)) = 2
    /\ Len(SelectSeq(trace, IsFetchDetail)) = 1
    /\ \E i \in 1..(Len(trace) - 1) :
          trace[i].ev = "basic" /\ trace[i + 1].ev # "delay"

====
